---- MODULE Spec2Model ----
(***************************************************************************)
(* A model of generate_embeddings.py: the embedding client                 *)
(* (generate_embedding), the embedding store (save_embedding,              *)
(* load_embedding, cosine_similarity), the file-to-file pipeline           *)
(* (embed_file) and the command-line entry point (main).                   *)
(*                                                                         *)
(* Every function of the module is an operator that takes the state it     *)
(* reads and returns what it returns or raises, the file system it leaves  *)
(* behind and the ordered list of the I/O it performed.  One action per    *)
(* function applies the operator to inputs drawn from small sets.          *)
(*                                                                         *)
(* Python values are tagged pairs <<tag, payload>>:                        *)
(*   <<"None", 0>>, <<"num", n>>, <<"str", symbols>>, <<"list", values>>,  *)
(*   <<"dict", items>> with items a sequence of <<key, value>> pairs in    *)
(*   insertion order, each key the symbols of a str.                       *)
(* A str is a sequence of symbols; a symbol is a pair <<kind, payload>>.   *)
(* A literal of the source is one symbol <<"c", "the literal">>; the text  *)
(* of an input file is one symbol per character.                           *)
(* Floats are modelled by integers, and the similarity score by an exact   *)
(* quotient num / sqrt(den_sq): rounding, overflow and underflow of IEEE   *)
(* doubles are outside the model.                                          *)
(***************************************************************************)
EXTENDS Integers, Sequences, FiniteSets

VARIABLES
    GEMINI_API_KEY,     \* module global read from the environment at import
    EMBEDDING_MODEL,    \* module global read from the environment at import
    fs,                 \* the file system: path -> node
    call,               \* the last call: <<function name, arguments>>
    result,             \* its outcome: <<"return", v>>, <<"raise", e>>, <<"exit", code>>
    trace,              \* the I/O the last call performed, in order
    saved               \* history: path -> the arguments of the last successful save

vars == <<GEMINI_API_KEY, EMBEDDING_MODEL, fs, call, result, trace, saved>>

----------------------------------------------------------------------------
(* Bounds of the model *)

\* largest dimension of the vectors given to cosine_similarity
MaxDim == 2
\* vector components range over -MaxVal .. MaxVal
MaxVal == 2
\* largest dimension of the vectors given to save_embedding
MaxStoreDim == 2
\* largest number of command-line arguments after the program name
MaxArgs == 3

----------------------------------------------------------------------------
(* Python values *)

None == <<"None", 0>>
Num(n) == <<"num", n>>
Str(s) == <<"str", s>>
List(xs) == <<"list", xs>>
Dict(items) == <<"dict", items>>

\* the symbols of a string literal of the source
Lit(s) == << <<"c", s>> >>

\* bool(v): None, 0, '', [] and {} are falsy
Truthy(v) ==
    CASE v[1] = "None" -> FALSE
      [] v[1] = "num" -> v[2] # 0
      [] OTHER -> Len(v[2]) > 0

\* the position of key k in the items of a dict, 0 when absent
KeyIndex(items, k) ==
    IF \E i \in 1..Len(items) : items[i][1] = k
    THEN CHOOSE i \in 1..Len(items) : items[i][1] = k
    ELSE 0

\* k in d, for a dict d
DictHas(d, k) == KeyIndex(d[2], k) # 0

\* d[k], for a dict d that holds k
DictAt(d, k) == d[2][KeyIndex(d[2], k)][2]

\* d.get(k, default)
DictGet(d, k, default) == IF DictHas(d, k) THEN DictAt(d, k) ELSE default

\* d[k] = v: replaces the value in place, or appends the key
DictSet(items, k, v) ==
    IF KeyIndex(items, k) # 0
    THEN [items EXCEPT ![KeyIndex(items, k)] = <<k, v>>]
    ELSE Append(items, <<k, v>>)

\* an exception: its class and the parts of its message
Exc(type, msg) == [type |-> type, msg |-> msg]
Return(v) == <<"return", v>>
Raise(e) == <<"raise", e>>

----------------------------------------------------------------------------
(* cosine_similarity *)

\* a list of floats from a sequence of numbers
Floats(xs) == List([i \in 1..Len(xs) |-> Num(xs[i])])

\* the i-th component of a list of floats
Component(e, i) == e[2][i][2]

Min(a, b) == IF a < b THEN a ELSE b

RECURSIVE SumTo(_, _)
\* sum(f(i) for i in 1..n), f given as a sequence
SumTo(f, n) == IF n = 0 THEN 0 ELSE f[n] + SumTo(f, n - 1)

\* sum(a * b for a, b in zip(e1, e2)): zip stops at the shorter list
DotProduct(e1, e2) ==
    LET n == Min(Len(e1[2]), Len(e2[2]))
    IN  SumTo([i \in 1..n |-> Component(e1, i) * Component(e2, i)], n)

\* x ** 0.5 for x >= 0, exactly: the real whose square is x
Sqrt(x) == [sq |-> x]

\* a variant that omits the square root
SquaredMagnitude(e) == Sqrt(DotProduct(e, e) * DotProduct(e, e))

\* sum(a * a for a in e) ** 0.5
Magnitude(e) == Sqrt(DotProduct(e, e))

\* the exact quotient num / sqrt(den_sq)
Quotient(num, den_sq) == <<"float", [num |-> num, den_sq |-> den_sq]>>

\* the float literal 0.0
Zero == Quotient(0, 1)

Sign(n) == IF n > 0 THEN 1 ELSE IF n < 0 THEN -1 ELSE 0

\* x == y for two exact quotients
FloatEquals(x, y) ==
    /\ Sign(x[2].num) = Sign(y[2].num)
    /\ x[2].num * x[2].num * y[2].den_sq = y[2].num * y[2].num * x[2].den_sq

\* a variant that rejects only a longer first vector
FirstIsLonger(embedding1, embedding2) == Len(embedding1[2]) > Len(embedding2[2])

\* if len(embedding1) != len(embedding2)
DimensionMismatch(embedding1, embedding2) == Len(embedding1[2]) # Len(embedding2[2])

\* a variant with "and" in place of "or"
BothZeroMagnitude(magnitude1, magnitude2) == magnitude1.sq = 0 /\ magnitude2.sq = 0

\* if magnitude1 == 0 or magnitude2 == 0
ZeroMagnitude(magnitude1, magnitude2) == magnitude1.sq = 0 \/ magnitude2.sq = 0

\* dot_product / (magnitude1 * magnitude2)
Divide(dot_product, magnitude1, magnitude2) ==
    IF magnitude1.sq * magnitude2.sq = 0
    THEN Raise(Exc("ZeroDivisionError", Lit("float division by zero")))
    ELSE Return(Quotient(dot_product, magnitude1.sq * magnitude2.sq))

cosine_similarity(embedding1, embedding2) ==
    IF DimensionMismatch(embedding1, embedding2)
    THEN Raise(Exc("ValueError", Lit("Embeddings must have same dimension")))
    ELSE LET dot_product == DotProduct(embedding1, embedding2)
             magnitude1 == Magnitude(embedding1)
             magnitude2 == Magnitude(embedding2)
         IN  IF ZeroMagnitude(magnitude1, magnitude2)
             THEN Return(Zero)
             ELSE Divide(dot_product, magnitude1, magnitude2)

\* the vectors given to cosine_similarity
RECURSIVE SeqsUpTo(_, _)
SeqsUpTo(S, n) ==
    IF n = 0 THEN {<<>>}
    ELSE LET shorter == SeqsUpTo(S, n - 1)
         IN  shorter \cup {Append(s, x) : s \in {t \in shorter : Len(t) = n - 1}, x \in S}

Vectors == {Floats(xs) : xs \in SeqsUpTo(-MaxVal..MaxVal, MaxDim)}

NoCall == <<"none", <<>>>>
NoResult == <<"none", 0>>

\* a caller computes the similarity of the two vectors it holds
Similarity ==
    /\ call[1] = "cosine_similarity"
    /\ result = NoResult
    /\ result' = cosine_similarity(call[2][1], call[2][2])
    /\ UNCHANGED <<GEMINI_API_KEY, EMBEDDING_MODEL, fs, call, trace, saved>>

----------------------------------------------------------------------------
(* json: a document is a sequence of tokens; the white space that indent=2 *)
(* adds carries no data and is left out                                    *)

LBRACE == <<"p", "{">>
RBRACE == <<"p", "}">>
LBRACKET == <<"p", "[">>
RBRACKET == <<"p", "]">>
COMMA == <<"p", ",">>
COLON == <<"p", ":">>
NULL == <<"null", 0>>

RECURSIVE JsonDumps(_), DumpElements(_, _), DumpMembers(_, _)

\* the elements of a list from position i on, separated by commas
DumpElements(xs, i) ==
    IF i > Len(xs) THEN <<>>
    ELSE (IF i > 1 THEN <<COMMA>> ELSE <<>>) \o JsonDumps(xs[i]) \o DumpElements(xs, i + 1)

\* the members of a dict from position i on, separated by commas
DumpMembers(items, i) ==
    IF i > Len(items) THEN <<>>
    ELSE (IF i > 1 THEN <<COMMA>> ELSE <<>>)
         \o << <<"str", items[i][1]>>, COLON >> \o JsonDumps(items[i][2])
         \o DumpMembers(items, i + 1)

\* json.dumps(v)
JsonDumps(v) ==
    CASE v[1] = "None" -> <<NULL>>
      [] v[1] = "num" -> << <<"num", v[2]>> >>
      [] v[1] = "str" -> << <<"str", v[2]>> >>
      [] v[1] = "list" -> <<LBRACKET>> \o DumpElements(v[2], 1) \o <<RBRACKET>>
      [] v[1] = "dict" -> <<LBRACE>> \o DumpMembers(v[2], 1) \o <<RBRACE>>

\* the outcome of parsing a value at the head of a token sequence
Parsed(v, rest) == [ok |-> TRUE, val |-> v, rest |-> rest]
ParseError == [ok |-> FALSE, val |-> None, rest |-> <<>>]

RECURSIVE ParseValue(_), ParseElements(_, _), ParseMembers(_, _)

\* after "[" or ",": a value, then "," or "]"
ParseElements(toks, acc) ==
    LET v == ParseValue(toks)
    IN  IF ~v.ok \/ v.rest = <<>> THEN ParseError
        ELSE IF Head(v.rest) = COMMA THEN ParseElements(Tail(v.rest), Append(acc, v.val))
        ELSE IF Head(v.rest) = RBRACKET THEN Parsed(List(Append(acc, v.val)), Tail(v.rest))
        ELSE ParseError

\* after "{" or ",": a string, ":", a value, then "," or "}"; a repeated key
\* keeps its first place and takes the last value
ParseMembers(toks, acc) ==
    IF Len(toks) < 2 \/ Head(toks)[1] # "str" \/ toks[2] # COLON THEN ParseError
    ELSE LET k == Head(toks)[2]
             v == ParseValue(Tail(Tail(toks)))
         IN  IF ~v.ok \/ v.rest = <<>> THEN ParseError
             ELSE IF Head(v.rest) = COMMA
                  THEN ParseMembers(Tail(v.rest), DictSet(acc, k, v.val))
             ELSE IF Head(v.rest) = RBRACE
                  THEN Parsed(Dict(DictSet(acc, k, v.val)), Tail(v.rest))
             ELSE ParseError

ParseValue(toks) ==
    IF toks = <<>> THEN ParseError
    ELSE LET h == Head(toks)
             rest == Tail(toks)
         IN  CASE h[1] = "null" -> Parsed(None, rest)
               [] h[1] = "num" -> Parsed(Num(h[2]), rest)
               [] h[1] = "str" -> Parsed(Str(h[2]), rest)
               [] h = LBRACKET ->
                    IF rest # <<>> /\ Head(rest) = RBRACKET
                    THEN Parsed(List(<<>>), Tail(rest))
                    ELSE ParseElements(rest, <<>>)
               [] h = LBRACE ->
                    IF rest # <<>> /\ Head(rest) = RBRACE
                    THEN Parsed(Dict(<<>>), Tail(rest))
                    ELSE ParseMembers(rest, <<>>)
               [] OTHER -> ParseError

\* json.loads(text): one value and nothing after it
JsonLoads(toks) ==
    LET v == ParseValue(toks)
    IN  IF v.ok /\ v.rest = <<>>
        THEN Return(v.val)
        ELSE Raise(Exc("JSONDecodeError", Lit("Expecting value")))

----------------------------------------------------------------------------
(* The file system.  A path is the sequence of its components, relative to *)
(* the working directory <<>>, which is a directory that always exists.    *)

ABSENT == <<"absent", 0>>
DIR == <<"dir", 0>>
File(content) == <<"file", content>>

\* Path(p).parent
Parent(p) == SubSeq(p, 1, Len(p) - 1)

\* the non-empty prefixes of a path: the path and its ancestors
Prefixes(p) == {SubSeq(p, 1, n) : n \in 1..Len(p)}

\* what is at path p
Node(f, p) == IF p = <<>> THEN DIR ELSE f[p]

IsFile(f, p) == Node(f, p)[1] = "file"
IsDir(f, p) == Node(f, p)[1] = "dir"
Exists(f, p) == Node(f, p)[1] # "absent"

\* str(path)
RECURSIVE PathStr(_)
PathStr(p) ==
    IF p = <<>> THEN Lit(".")
    ELSE IF Len(p) = 1 THEN Lit(p[1])
    ELSE PathStr(Parent(p)) \o Lit("/") \o Lit(p[Len(p)])

\* d.mkdir(parents=True, exist_ok=True): fails when d or an ancestor is a file
MkdirFails(f, d) == \E q \in Prefixes(d) : IsFile(f, q)
Mkdir(f, d) == [q \in DOMAIN f |-> IF q \in Prefixes(d) THEN DIR ELSE f[q]]

\* open(p, 'w') and a complete write of content
WriteFile(f, p, content) == [f EXCEPT ![p] = File(content)]

----------------------------------------------------------------------------
(* save_embedding and load_embedding *)

\* whether len(v) is defined
HasLen(v) == v[1] \in {"str", "list", "dict"}

\* a variant that omits the "or {}" default
MetadataAsGiven(metadata) == metadata

\* metadata or {}
MetadataOrEmpty(metadata) == IF Truthy(metadata) THEN metadata ELSE Dict(<<>>)

\* the dict that save_embedding serialises
OutputData(model, embedding, metadata) ==
    Dict(<< <<Lit("embedding"), embedding>>,
            <<Lit("dimension"), Num(Len(embedding[2]))>>,
            <<Lit("model"), model>>,
            <<Lit("metadata"), MetadataOrEmpty(metadata)>> >>)

\* what a function leaves behind: the file system, its outcome, its I/O
Outcome(f, r, t) == [fs |-> f, result |-> r, trace |-> t]

\* with open(output_file, 'w') as f: json.dump(output_data, f), after mkdir
WriteRecord(made, output_path, output_data, t) ==
    IF IsDir(made, output_path)
    THEN Outcome(made, Raise(Exc("IsADirectoryError", PathStr(output_path))),
                 Append(t, <<"open_w", output_path>>))
    ELSE Outcome(WriteFile(made, output_path, JsonDumps(output_data)), Return(None),
                 t \o << <<"open_w", output_path>>, <<"write", output_path>> >>)

save_embedding(f, model, embedding, output_path, metadata) ==
    IF ~HasLen(embedding)
    THEN Outcome(f, Raise(Exc("TypeError", Lit("object has no len()"))), <<>>)
    ELSE IF MkdirFails(f, Parent(output_path))
    THEN Outcome(f, Raise(Exc("FileExistsError", PathStr(Parent(output_path)))),
                 << <<"mkdir", Parent(output_path)>> >>)
    ELSE WriteRecord(Mkdir(f, Parent(output_path)), output_path,
                     OutputData(model, embedding, metadata),
                     << <<"mkdir", Parent(output_path)>> >>)

\* open(p, 'r') fails
OpenError(f, p) ==
    IF \E q \in Prefixes(Parent(p)) : IsFile(f, q)
    THEN Exc("NotADirectoryError", PathStr(p))
    ELSE IF IsDir(f, p) THEN Exc("IsADirectoryError", PathStr(p))
    ELSE Exc("FileNotFoundError", PathStr(p))

\* data.get('embedding', []), data.get('metadata', {}), for the data json.load gave
ReadRecord(f, loaded, t) ==
    IF loaded[1] = "raise" THEN Outcome(f, loaded, t)
    ELSE IF loaded[2][1] # "dict"
    THEN Outcome(f, Raise(Exc("AttributeError", Lit("object has no attribute 'get'"))), t)
    ELSE Outcome(f, Return(<< DictGet(loaded[2], Lit("embedding"), List(<<>>)),
                             DictGet(loaded[2], Lit("metadata"), Dict(<<>>)) >>), t)

load_embedding(f, input_path) ==
    IF ~IsFile(f, input_path)
    THEN Outcome(f, Raise(OpenError(f, input_path)), << <<"open_r", input_path>> >>)
    ELSE ReadRecord(f, JsonLoads(Node(f, input_path)[2]),
                    << <<"open_r", input_path>>, <<"read", input_path>> >>)

\* the text of an input file: one symbol per character
Text(n) == [i \in 1..n |-> <<"c", "x">>]

\* the vectors given to save_embedding: <<>>, <<-1>>, <<-1, 0>>, <<-1, 0, 1>>, ...
StoreVectors == {Floats([i \in 1..n |-> i - 2]) : n \in 0..MaxStoreDim}

\* the metadata given to save_embedding: omitted, empty, and one holding every
\* kind of JSON value
Metadatas ==
    { None,
      Dict(<<>>),
      Dict(<< <<Lit("source_file"), Str(Lit("in.txt"))>>,
              <<Lit("text_length"), Num(11)>>,
              <<Lit("text_preview"), Str(Text(2))>>,
              <<Lit("tags"), List(<<Str(Lit("a")), Num(1), None>>)>>,
              <<Lit("extra"), Dict(<< <<Lit("k"), List(<<>>)>> >>)>> >>) }

\* the paths the model knows
InputPaths == {<<"in.txt">>, <<"long.txt">>, <<"missing.txt">>}
OutputPaths == {<<"out.json">>, <<"emb">>, <<"emb", "out.json">>}
Paths == InputPaths \cup OutputPaths \cup {<<"in.txt", "out.json">>}

NoSave == <<"none", 0>>
Saved(embedding, metadata) == <<"saved", [embedding |-> embedding, metadata |-> metadata]>>

\* a caller saves a vector
Save ==
    \E v \in StoreVectors, p \in OutputPaths, m \in Metadatas :
        \E r \in {save_embedding(fs, EMBEDDING_MODEL, v, p, m)} :
            /\ call' = <<"save_embedding", <<p>>>>
            /\ fs' = r.fs
            /\ result' = r.result
            /\ trace' = r.trace
            /\ saved' = IF r.result[1] = "return"
                        THEN [saved EXCEPT ![p] = Saved(v, m)]
                        ELSE saved
            /\ UNCHANGED <<GEMINI_API_KEY, EMBEDDING_MODEL>>

\* a caller loads a vector
Load ==
    \E p \in Paths :
        \E r \in {load_embedding(fs, p)} :
            /\ call' = <<"load_embedding", <<p>>>>
            /\ fs' = r.fs
            /\ result' = r.result
            /\ trace' = r.trace
            /\ UNCHANGED <<GEMINI_API_KEY, EMBEDDING_MODEL, saved>>

----------------------------------------------------------------------------
(* generate_embedding *)

\* a variant that tests "is None" in place of falsiness
KeyIsNone(key) == key = None

\* if not GEMINI_API_KEY
KeyMissing(key) == ~Truthy(key)

\* the symbol that formatting an int gives
IntStr(n) == << <<"int", n>> >>

\* the symbol that formatting a value gives
Repr(v) == << <<"repr", v>> >>

\* whether sequence k occurs in sequence s as a contiguous run
Occurs(k, s) == \E i \in 1..(Len(s) - Len(k) + 1) : SubSeq(s, i, i + Len(k) - 1) = k

NotIterable == Exc("TypeError", Lit("argument is not iterable"))
BadIndex == Exc("TypeError", Lit("indices must be integers"))

\* k in v, for a str k: a key of a dict, an element of a list, a substring of a
\* str; a TypeError otherwise
PyIn(k, v) ==
    CASE v[1] = "dict" -> Return(DictHas(v, k))
      [] v[1] = "list" -> Return(\E i \in 1..Len(v[2]) : v[2][i] = Str(k))
      [] v[1] = "str" -> Return(Occurs(k, v[2]))
      [] OTHER -> Raise(NotIterable)

\* v[k], for a str k
PyIndex(v, k) ==
    IF v[1] = "dict"
    THEN IF DictHas(v, k) THEN Return(DictAt(v, k)) ELSE Raise(Exc("KeyError", k))
    ELSE Raise(BadIndex)

\* the answers of the provider: a transport failure, or a status and a body
Transport(reason) == <<"transport", reason>>
Http(status, body) == <<"http", [status |-> status, body |-> body]>>

\* the request that generate_embedding sends
ApiUrl(model, key) ==
    Lit("https://generativelanguage.googleapis.com/v1beta/") \o model[2]
    \o Lit(":embedContent?key=") \o key[2]

RequestData(model, text, task_type) ==
    Dict(<< <<Lit("model"), model>>,
            <<Lit("content"),
              Dict(<< <<Lit("parts"), List(<< Dict(<< <<Lit("text"), text>> >>) >>)>> >>)>>,
            <<Lit("taskType"), Str(Lit(task_type))>> >>)

Request(model, key, text, task_type) ==
    <<"POST", [url |-> ApiUrl(model, key),
               body |-> JsonDumps(RequestData(model, text, task_type)),
               content_type |-> "application/json"]>>

\* if 'embedding' in data and 'values' in data['embedding']: return
\* data['embedding']['values'], else raise Exception
ReadValues(data) ==
    LET has_embedding == PyIn(Lit("embedding"), data)
        embedding == PyIndex(data, Lit("embedding"))
        has_values == PyIn(Lit("values"), embedding[2])
        unexpected == Raise(Exc("Exception",
                                Lit("Unexpected API response format: ") \o Repr(data)))
    IN  IF has_embedding[1] = "raise" THEN has_embedding
        ELSE IF ~has_embedding[2] THEN unexpected
        ELSE IF embedding[1] = "raise" THEN embedding
        ELSE IF has_values[1] = "raise" THEN has_values
        ELSE IF ~has_values[2] THEN unexpected
        ELSE PyIndex(embedding[2], Lit("values"))

\* urllib.request.urlopen(req): a transport failure raises URLError, a status
\* outside 200..299 raises HTTPError, anything else is the response
IsSuccess(status) == 200 <= status /\ status < 300

\* data = json.loads(...) and what follows it in the with block
ReadResponse(data) == IF data[1] = "raise" THEN data ELSE ReadValues(data[2])

\* the body of the try statement: what it returns or the exception it raises
TryBody(response) ==
    IF response[1] = "transport"
    THEN Raise([type |-> "URLError",
                msg |-> Lit("<urlopen error ") \o response[2] \o Lit(">")])
    ELSE IF ~IsSuccess(response[2].status)
    THEN Raise([type |-> "HTTPError", msg |-> Lit("HTTP Error ") \o IntStr(response[2].status),
                code |-> response[2].status, body |-> response[2].body])
    ELSE ReadResponse(JsonLoads(response[2].body))

\* except urllib.error.HTTPError as e
ProviderError(e) ==
    Raise(Exc("Exception",
              Lit("Embedding API error: HTTP ") \o IntStr(e.code) \o Lit(" - ") \o e.body))

\* except Exception as e
GenericFailure(e) == Raise(Exc("Exception", Lit("Failed to generate embedding: ") \o e.msg))

\* a variant whose "except Exception" clause comes first
HandleGenericFirst(e) == GenericFailure(e)

\* the except clauses, in order; every exception of the body is an Exception
Handle(e) == IF e.type = "HTTPError" THEN ProviderError(e) ELSE GenericFailure(e)

\* the try statement: the outcome of its body, or of the clause that handles it
Try(body) == IF body[1] = "raise" THEN Handle(body[2]) ELSE body

\* the outcome of a function that leaves the file system alone
Pure(r, t) == [result |-> r, trace |-> t]

generate_embedding(key, model, text, task_type, response) ==
    IF KeyMissing(key)
    THEN Pure(Raise(Exc("ValueError", Lit("GEMINI_API_KEY environment variable not set"))),
              <<>>)
    ELSE Pure(Try(TryBody(response)), << Request(model, key, text, task_type) >>)

----------------------------------------------------------------------------
(* embed_file *)

\* text[:200] keeps this many characters
PREVIEW_LEN == 200

\* text[:200] + ('...' if len(text) > 200 else '')
Preview(text) ==
    SubSeq(text, 1, Min(PREVIEW_LEN, Len(text)))
    \o (IF Len(text) > PREVIEW_LEN THEN Lit("...") ELSE <<>>)

FileMetadata(input_path, text) ==
    Dict(<< <<Lit("source_file"), Str(PathStr(input_path))>>,
            <<Lit("text_length"), Num(Len(text))>>,
            <<Lit("text_preview"), Str(Preview(text))>> >>)

\* print(..., file=sys.stderr)
Stderr(msg) == <<"stderr", msg>>

\* what embed_file leaves behind; done is what it saved, if it did
Piped(f, r, t, done) == [fs |-> f, result |-> r, trace |-> t, saved |-> done]

\* after save_embedding(embedding, output_path, metadata) gave s
AfterSave(output_path, embedding, metadata, t, s) ==
    IF s.result[1] = "raise" THEN Piped(s.fs, s.result, t \o s.trace, NoSave)
    ELSE Piped(s.fs, Return(None),
               t \o s.trace
               \o << Stderr(Lit("Saved embedding to ") \o PathStr(output_path)),
                     Stderr(Lit("Embedding dimension: ") \o IntStr(Len(embedding[2]))) >>,
               Saved(embedding, metadata))

\* after generate_embedding(text, task_type=task_type) gave g
AfterGenerate(f, model, input_path, output_path, text, t, g) ==
    IF g.result[1] = "raise" THEN Piped(f, g.result, t \o g.trace, NoSave)
    ELSE AfterSave(output_path, g.result[2], FileMetadata(input_path, text), t \o g.trace,
                   save_embedding(f, model, g.result[2], output_path,
                                  FileMetadata(input_path, text)))

\* from the call of generate_embedding on
EmbedText(f, key, model, input_path, output_path, task_type, response, text, t) ==
    AfterGenerate(f, model, input_path, output_path, text,
                  Append(t, <<"call", "generate_embedding">>),
                  generate_embedding(key, model, Str(text), task_type, response))

\* a variant that omits the existence check
InputNeverMissing(f, input_path) == FALSE

\* if not input_file.exists()
InputMissing(f, input_path) == ~Exists(f, input_path)

embed_file(f, key, model, input_path, output_path, task_type, response) ==
    LET t == << <<"exists", input_path>> >>
        t1 == Append(t, <<"read", input_path>>)
    IN  IF InputMissing(f, input_path)
        THEN Piped(f, Raise(Exc("FileNotFoundError",
                                Lit("Input file not found: ") \o PathStr(input_path))),
                   t, NoSave)
        ELSE IF ~IsFile(f, input_path)
        THEN Piped(f, Raise(OpenError(f, input_path)), t1, NoSave)
        ELSE EmbedText(f, key, model, input_path, output_path, task_type, response,
                       Node(f, input_path)[2],
                       Append(t1, Stderr(Lit("Generating embedding for ")
                                         \o PathStr(input_path) \o Lit("..."))))

----------------------------------------------------------------------------
(* main *)

\* sys.exit(code), or the return of main with code 0
Exit(code) == <<"exit", code>>

Usage == << Stderr(Lit("Usage: ./generate_embeddings.py <input_file> <output_file> [task_type]")),
            Stderr(<<>>),
            Stderr(Lit("Task types:")),
            Stderr(Lit("  RETRIEVAL_DOCUMENT (default) - For embeddings stored in a database")),
            Stderr(Lit("  RETRIEVAL_QUERY - For search queries")),
            Stderr(Lit("  SEMANTIC_SIMILARITY - For similarity comparison")),
            Stderr(Lit("  CLASSIFICATION - For text classification")),
            Stderr(Lit("  CLUSTERING - For clustering texts")) >>

\* a variant whose except clause omits sys.exit(1)
ExitCodeZero(r) == 0

\* the exit code after embed_file: 1 when it raised, 0 when main returns
ExitCode(r) == IF r[1] = "raise" THEN 1 ELSE 0

\* sys.argv[3] if len(sys.argv) > 3 else "RETRIEVAL_DOCUMENT"
TaskTypeArg(argv) == IF Len(argv) > 3 THEN argv[4] ELSE "RETRIEVAL_DOCUMENT"

\* after embed_file(input_path, output_path, task_type) gave e
AfterEmbedFile(e) ==
    IF e.result[1] = "raise"
    THEN Piped(e.fs, Exit(ExitCode(e.result)),
               Append(e.trace, Stderr(Lit("Error: ") \o e.result[2].msg)), e.saved)
    ELSE Piped(e.fs, Exit(ExitCode(e.result)), e.trace, e.saved)

\* argv is sys.argv: argv[1] is the program name, the arguments follow it
main(f, key, model, argv, response) ==
    IF Len(argv) < 3
    THEN Piped(f, Exit(1), Usage, NoSave)
    ELSE AfterEmbedFile(embed_file(f, key, model, argv[2], argv[3], TaskTypeArg(argv),
                                   response))

----------------------------------------------------------------------------
(* The inputs of the pipeline *)

TaskTypes == {"RETRIEVAL_DOCUMENT", "SEMANTIC_SIMILARITY"}

RateLimited == JsonDumps(Dict(<< <<Lit("error"), Str(Lit("rate limited"))>> >>))
WithValues == JsonDumps(Dict(<< <<Lit("embedding"),
                                  Dict(<< <<Lit("values"), Floats(<<1, 2, 3>>)>> >>)>> >>))
WithoutValues == JsonDumps(Dict(<< <<Lit("embedding"), Dict(<<>>)>> >>))

Responses ==
    { Http(200, WithValues),
      Http(201, WithValues),
      Http(200, WithoutValues),
      Http(200, RateLimited),
      Http(200, Lit("<html>")),
      Http(429, RateLimited),
      Http(500, Lit("<html>")),
      Transport(Lit("timed out")) }

\* the paths embed_file writes to: the second lies under a regular file
PipelineOutputs == {<<"out.json">>, <<"in.txt", "out.json">>}

\* the command lines: the program name and up to MaxArgs arguments
Argvs ==
    {<<"prog">>}
    \cup {<<"prog", i>> : i \in IF MaxArgs >= 1 THEN InputPaths ELSE {}}
    \cup {<<"prog", i, o>> : i \in IF MaxArgs >= 2 THEN InputPaths ELSE {}, o \in PipelineOutputs}
    \cup {<<"prog", i, o, t>> : i \in IF MaxArgs >= 3 THEN InputPaths ELSE {},
                                o \in PipelineOutputs, t \in TaskTypes}
    \cup {<<"prog", i, o, t>> \o [k \in 1..n |-> "extra"] :
            i \in InputPaths, o \in PipelineOutputs, t \in TaskTypes, n \in 1..(MaxArgs - 3)}

\* a caller asks for the embedding of a text
Generate ==
    \E text \in {<<>>, Text(2)}, task_type \in TaskTypes, response \in Responses :
        \E r \in {generate_embedding(GEMINI_API_KEY, EMBEDDING_MODEL, Str(text), task_type,
                                     response)} :
            /\ call' = <<"generate_embedding", <<Str(text), task_type, response>>>>
            /\ result' = r.result
            /\ trace' = r.trace
            /\ UNCHANGED <<GEMINI_API_KEY, EMBEDDING_MODEL, fs, saved>>

\* a caller embeds a file
EmbedFile ==
    \E i \in InputPaths, o \in PipelineOutputs, task_type \in TaskTypes,
       response \in Responses :
        \E r \in {embed_file(fs, GEMINI_API_KEY, EMBEDDING_MODEL, i, o, task_type, response)} :
            /\ call' = <<"embed_file", <<i, o, task_type, response>>>>
            /\ fs' = r.fs
            /\ result' = r.result
            /\ trace' = r.trace
            /\ saved' = IF r.saved = NoSave THEN saved ELSE [saved EXCEPT ![o] = r.saved]
            /\ UNCHANGED <<GEMINI_API_KEY, EMBEDDING_MODEL>>

\* the program is run from the command line
Main ==
    \E argv \in Argvs, response \in Responses :
        \E r \in {main(fs, GEMINI_API_KEY, EMBEDDING_MODEL, argv, response)} :
            /\ call' = <<"main", <<argv, response>>>>
            /\ fs' = r.fs
            /\ result' = r.result
            /\ trace' = r.trace
            /\ saved' = IF r.saved = NoSave THEN saved ELSE [saved EXCEPT ![argv[3]] = r.saved]
            /\ UNCHANGED <<GEMINI_API_KEY, EMBEDDING_MODEL>>

----------------------------------------------------------------------------
(* The state after import *)

DefaultModel == Str(Lit("models/text-embedding-004"))

\* os.environ.get('GEMINI_API_KEY'): unset, set to '', or set
ApiKeys == {None, Str(<<>>), Str(Lit("secret"))}

\* the files that exist before the first call: the paths in texts hold text,
\* long.txt more than 200 characters of it
InitFs(texts) ==
    [p \in Paths |->
        IF p \notin texts THEN ABSENT
        ELSE IF p = <<"long.txt">> THEN File(Text(PREVIEW_LEN + 1))
        ELSE File(Text(2))]

\* os.environ.get('EMBEDDING_MODEL', 'models/text-embedding-004')
Models == {DefaultModel, Str(Lit("models/other"))}

InitWith(keys, models, calls, texts) ==
    /\ GEMINI_API_KEY \in keys
    /\ EMBEDDING_MODEL \in models
    /\ fs = InitFs(texts)
    /\ call \in calls
    /\ result = NoResult
    /\ trace = <<>>
    /\ saved = [p \in Paths |-> NoSave]

\* the functions of the store read no API key; one text file exists
InitStore == InitWith({None}, Models, {NoCall}, {<<"in.txt">>})

\* cosine_similarity reads no state: every pair of vectors is a call to make
InitSimilarity ==
    InitWith({None}, {DefaultModel}, {<<"cosine_similarity", <<a, b>>>> : a, b \in Vectors},
             {})

NextSimilarity == Similarity
SpecSimilarity == InitSimilarity /\ [][NextSimilarity]_vars

NextStore == Save \/ Load
SpecStore == InitStore /\ [][NextStore]_vars

InitPipeline == InitWith(ApiKeys, {DefaultModel}, {NoCall}, {<<"in.txt">>, <<"long.txt">>})

NextPipeline == Generate \/ EmbedFile \/ Main
SpecPipeline == InitPipeline /\ [][NextPipeline]_vars

----------------------------------------------------------------------------
(* Properties of the store *)

\* the arguments of the last call
Arg(i) == call[2][i]

\* what a saved metadata argument loads as: an omitted one as the empty mapping
LoadsAs(metadata) == IF metadata = None THEN Dict(<<>>) ELSE metadata

\* every path saved to loads as the vector and metadata of its last successful save
RoundTrip ==
    \A p \in Paths :
        saved[p] # NoSave =>
            load_embedding(fs, p).result
                = Return(<<saved[p][2].embedding, LoadsAs(saved[p][2].metadata)>>)

\* a save to p leaves what load returns for every other path as it was
OtherPathsKept ==
    call'[1] = "save_embedding" =>
        \A q \in Paths \ {call'[2][1]} :
            \A before \in {load_embedding(fs, q).result} :
                before[1] = "return" => load_embedding(fs', q).result = before

\* C1: after any sequence of saves, load(path) returns the vector and the metadata
\* of the most recent successful save to that path (an omitted or empty metadata
\* loads as the empty mapping), and a save to one path never changes what load
\* returns for another path.
C1_SaveThenLoad == []RoundTrip /\ [][OtherPathsKept]_vars

\* C1 witness: a load returns a non-empty vector saved without metadata, while
\* another path holds a different vector saved later or earlier
C1_Witness ==
    /\ call[1] = "load_embedding"
    /\ result[1] = "return"
    /\ saved[Arg(1)] # NoSave
    /\ Len(saved[Arg(1)][2].embedding[2]) > 0
    /\ saved[Arg(1)][2].metadata = None
    /\ result[2][2] = Dict(<<>>)
    /\ \E q \in Paths \ {Arg(1)} :
        /\ saved[q] # NoSave
        /\ saved[q][2].embedding # saved[Arg(1)][2].embedding

----------------------------------------------------------------------------
(* Properties of cosine_similarity *)

Returned == result # NoResult

\* the components of the two vectors of a cosine_similarity call
VecA == [i \in 1..Len(Arg(1)[2]) |-> Arg(1)[2][i][2]]
VecB == [i \in 1..Len(Arg(2)[2]) |-> Arg(2)[2][i][2]]

\* a vector with at least one component, all of them zero
AllZero(v) == Len(v) > 0 /\ \A i \in 1..Len(v) : v[i] = 0

One == Quotient(1, 1)

IsDimensionError ==
    /\ result[1] = "raise"
    /\ result[2].type = "ValueError"
    /\ result[2].msg = Lit("Embeddings must have same dimension")

\* C2: for all vectors A and B whose lengths differ (also when one is empty or
\* all-zero), similarity(A, B) fails with a dimension-mismatch error and returns
\* no score.
C2_UnequalLengthsFail ==
    (Returned /\ Len(VecA) # Len(VecB)) => IsDimensionError

\* C2 witness: an empty vector against an all-zero vector of two components
C2_Witness ==
    /\ Returned
    /\ VecA = <<>>
    /\ VecB = <<0, 0>>
    /\ IsDimensionError

\* C3 as stated: for all vectors A and B, if A or B is all-zero then
\* similarity(A, B) returns 0.0
C3_ZeroVectorGivesZero ==
    (Returned /\ (AllZero(VecA) \/ AllZero(VecB)))
    => (result[1] = "return" /\ FloatEquals(result[2], Zero))

\* C3 amended: for all vectors A and B of equal length, if A or B is all-zero
\* then similarity(A, B) returns 0.0; with unequal lengths it fails instead
C3_ZeroVectorGivesZeroEqualLength ==
    (Returned /\ Len(VecA) = Len(VecB) /\ (AllZero(VecA) \/ AllZero(VecB)))
    => (result[1] = "return" /\ FloatEquals(result[2], Zero))

\* C3 witness: an all-zero vector against a non-zero vector of the same length
C3_Witness ==
    /\ Returned
    /\ VecA = <<0, 0>>
    /\ VecB = <<1, -1>>
    /\ result = Return(Zero)

\* C4 as stated, for the vectors that have a component: for every vector A,
\* similarity(A, A) equals 1.0
C4_SelfSimilarityIsOne ==
    (Returned /\ VecA = VecB /\ VecA # <<>>)
    => (result[1] = "return" /\ FloatEquals(result[2], One))

\* C4 amended: for every vector A that is not all-zero, similarity(A, A) equals
\* 1.0 in exact arithmetic; for an all-zero or empty A it is 0.0
C4_SelfSimilarityIsOneNonZero ==
    (Returned /\ VecA = VecB)
    => /\ result[1] = "return"
       /\ FloatEquals(result[2], IF AllZero(VecA) \/ VecA = <<>> THEN Zero ELSE One)

\* C4 witness: a vector of norm sqrt(2) against itself
C4_Witness ==
    /\ Returned
    /\ VecA = <<1, -1>>
    /\ VecB = VecA
    /\ result[1] = "return"
    /\ FloatEquals(result[2], One)

----------------------------------------------------------------------------
(* Properties of the client and the pipeline *)

\* no provider API key is available in the environment
NoKey == GEMINI_API_KEY = None \/ GEMINI_API_KEY = Str(<<>>)

\* the network requests of the last call
Posts == {i \in 1..Len(trace) : trace[i][1] = "POST"}

\* the invocations of generate_embedding by the last call
GenerateCalls == {i \in 1..Len(trace) : trace[i] = <<"call", "generate_embedding">>}

\* the events of the last call that read or change the file system
FileEvents ==
    {i \in 1..Len(trace) : trace[i][1] \in {"exists", "read", "mkdir", "open_w", "write"}}

IsConfigError ==
    /\ result[1] = "raise"
    /\ result[2].type = "ValueError"
    /\ result[2].msg = Lit("GEMINI_API_KEY environment variable not set")

\* C5: when no provider API key is available, generate fails with a configuration
\* error for every text and task type, and no network request is issued at any
\* point of that call.
C5_NoKeyNoRequest ==
    (call[1] = "generate_embedding" /\ NoKey) => (IsConfigError /\ Posts = {})

\* C5 witness: generate is called without a key while the provider would have
\* answered with an embedding
C5_Witness ==
    /\ call[1] = "generate_embedding"
    /\ GEMINI_API_KEY = None
    /\ Arg(3) = Http(200, WithValues)
    /\ IsConfigError

\* the answer of the provider to the last generate call has a status outside 2xx
NonSuccess(response) ==
    response[1] = "http" /\ (response[2].status < 200 \/ response[2].status > 299)

\* C6: when the provider answers with a non-2xx status, generate fails with a
\* provider error whose message contains the status code and the raw body text,
\* after exactly one request: never retried, no vector returned.
C6_ProviderError ==
    (call[1] = "generate_embedding" /\ ~NoKey /\ NonSuccess(Arg(3)))
    => /\ result[1] = "raise"
       /\ Head(result[2].msg) = <<"c", "Embedding API error: HTTP ">>
       /\ Occurs(<< <<"int", Arg(3)[2].status>> >>, result[2].msg)
       /\ Occurs(Arg(3)[2].body, result[2].msg)
       /\ Cardinality(Posts) = 1

\* C6 witness: HTTP 429 with body {"error": "rate limited"}
C6_Witness ==
    /\ call[1] = "generate_embedding"
    /\ ~NoKey
    /\ Arg(3) = Http(429, RateLimited)
    /\ result[1] = "raise"
    /\ Cardinality(Posts) = 1

\* how a caller tells errors apart: the class and the leading text of the message
ErrorKind(r) == <<r[2].type, Head(r[2].msg)>>

\* what generate raises on a transport failure, with this key and model
TransportFailure ==
    generate_embedding(GEMINI_API_KEY, EMBEDDING_MODEL, Str(<<>>), "RETRIEVAL_DOCUMENT",
                       Transport(Lit("timed out"))).result

\* the answer has a 2xx status and a JSON object without embedding.values
LacksValues(response) ==
    /\ response[1] = "http"
    /\ response[2].status >= 200 /\ response[2].status <= 299
    /\ response[2].body \in {WithoutValues, RateLimited}

\* C7: when the provider answers 2xx with a body that lacks embedding.values,
\* generate fails with a malformed-response error that carries the parsed body,
\* and this error kind is distinct from the generic transport-failure error.
C7_MalformedIsDistinct ==
    (call[1] = "generate_embedding" /\ ~NoKey /\ LacksValues(Arg(3)))
    => /\ result[1] = "raise"
       /\ Occurs(Repr(JsonLoads(Arg(3)[2].body)[2]), result[2].msg)
       /\ ErrorKind(result) # ErrorKind(TransportFailure)

IsFileNotFound ==
    /\ result[1] = "raise"
    /\ result[2].type = "FileNotFoundError"

\* C8: embedFile with an input path that does not exist fails with a
\* file-not-found error before any network call: generate is never invoked,
\* whatever the API key and output path are; the existence check is the only
\* I/O of the call.
C8_MissingInputFailsFirst ==
    (call[1] = "embed_file" /\ ~Exists(fs, Arg(1)))
    => /\ IsFileNotFound
       /\ Posts = {}
       /\ GenerateCalls = {}
       /\ trace = << <<"exists", Arg(1)>> >>

\* C8 witness: the input is missing while a key is set and the provider would
\* have answered with an embedding
C8_Witness ==
    /\ call[1] = "embed_file"
    /\ Arg(1) = <<"missing.txt">>
    /\ GEMINI_API_KEY = Str(Lit("secret"))
    /\ Arg(4) = Http(200, WithValues)
    /\ IsFileNotFound

\* the command line of the last main call
Argv == Arg(1)

\* the pipeline of the last main call ran to the end: the output was written
PipelineCompleted == \E i \in 1..Len(trace) : trace[i][1] = "write"

\* the task type of every request of the last call
RequestTaskTypes ==
    {DictAt(JsonLoads(trace[i][2].body)[2], Lit("taskType")) : i \in Posts}

\* C9: main exits with code 1 when fewer than 2 positional arguments are given,
\* without running the pipeline; exits with code 1 when a step of the pipeline
\* fails; exits with code 0 exactly when the pipeline completes; and the task
\* type defaults to RETRIEVAL_DOCUMENT when the third argument is absent.
C9_ExitCodes ==
    call[1] = "main"
    => /\ result[1] = "exit"
       /\ result[2] \in {0, 1}
       /\ Len(Argv) < 3 => (result[2] = 1 /\ FileEvents = {} /\ Posts = {})
       /\ result[2] = 0 <=> PipelineCompleted
       /\ Len(Argv) = 3 => RequestTaskTypes \subseteq {Str(Lit("RETRIEVAL_DOCUMENT"))}
       /\ Len(Argv) > 3 => RequestTaskTypes \subseteq {Str(Lit(Argv[4]))}

\* C9 witness: a run with two arguments succeeds with the default task type
C9_Witness ==
    /\ call[1] = "main"
    /\ Len(Argv) = 3
    /\ result = Exit(0)
    /\ PipelineCompleted
    /\ RequestTaskTypes = {Str(Lit("RETRIEVAL_DOCUMENT"))}

\* C10 as stated: when the API key is missing, a run of embedFile reports the
\* configuration error before it performs any file or network I/O, in
\* particular before the input file is checked or read.
C10_KeyCheckedBeforeAnyIO ==
    (call[1] = "embed_file" /\ NoKey)
    => (IsConfigError /\ FileEvents = {} /\ Posts = {})

\* C10 amended: when the API key is missing, embedFile issues no network request
\* and writes nothing, but it checks and reads the input file first: with an
\* existing input file it reports the configuration error after exactly these
\* two file operations, and with a missing one it fails with file-not-found.
C10_KeyCheckedAfterRead ==
    (call[1] = "embed_file" /\ NoKey)
    => /\ Posts = {}
       /\ IF IsFile(fs, Arg(1))
          THEN /\ IsConfigError
               /\ {trace[i] : i \in FileEvents}
                    = {<<"exists", Arg(1)>>, <<"read", Arg(1)>>}
               /\ GenerateCalls # {}
          ELSE IsFileNotFound /\ GenerateCalls = {}

\* C10 witness: no key, an existing input file, the configuration error
C10_Witness ==
    /\ call[1] = "embed_file"
    /\ GEMINI_API_KEY = None
    /\ Arg(1) = <<"in.txt">>
    /\ IsConfigError
    /\ FileEvents # {}

====
